---------------------------- MODULE Spec2Model ----------------------------
(***************************************************************************)
(* Model of the go-k8s-demo user service (cmd/server/main.go): the users   *)
(* table of the V1 migration, the Repository methods, the gin handlers of  *)
(* registerRoutes and the lifecycle of main.                               *)
(*                                                                         *)
(* Text values that the code inspects are kept as sequences: a path         *)
(* parameter is a sequence of one-character strings (what strconv.ParseInt *)
(* scans) and an email is a sequence of tokens (what the `email` binding   *)
(* inspects).  Names are plain strings, "" being the zero value.           *)
(***************************************************************************)
EXTENDS Integers, Sequences, FiniteSets, Bags, TLC

\* Bound: number of requests the listener has in flight at once.
MaxReqs == 2
\* Bound: the largest identifier users_id_seq hands out in a run.
MaxId == 4

VARIABLES
    users,       \* committed rows of table users: set of [id, name, email]
    users_id_seq,\* next value of the SERIAL sequence behind users.id
    storeUp,     \* whether the relational store answers
    mainPc,      \* lifecycle of main: Starting, Serving, Draining, Closing, Stopped, Fatal
    poolClosed,  \* dbpool.Close() has run
    startup,     \* what main read and saw on its way to the listener
    shutdownErr, \* what srv.Shutdown returned, once it has
    inflight,    \* bag of the handler goroutines in flight, each by its position
    last,        \* the most recent response written by a handler
    created,     \* history: rows as answered 201 by POST /users, not written since
    expect       \* history: the list GET /users is due after the latest write or PUT miss

vars == <<users, users_id_seq, storeUp, mainPc, poolClosed, startup,
          shutdownErr, inflight, last, created, expect>>

----------------------------------------------------------------------------
(* Input domains *)

AliceEmail == <<"alice", "@", "example.com">>
BobEmail   == <<"bob", "@", "example.com">>
CarolEmail == <<"carol", "@", "example.com">>
NoEmail    == <<>>
BadEmail   == <<"not-an-email">>

\* V1 migration: the two seeded rows (ids 1 and 2 from the sequence).
SeedUsers ==
    { [id |-> 1, name |-> "Alice", email |-> AliceEmail],
      [id |-> 2, name |-> "Bob",   email |-> BobEmail] }

\* Path parameters :id offered by clients: two decimal identifiers (one with
\* a leading zero), one that is no number and one beyond the 64-bit range
\* (2^63).
PathIds ==
    { <<"1">>, <<"0", "3">>, <<"1", "x">>,
      <<"9","2","2","3","3","7","2","0","3","6","8","5","4","7","7","5","8","0","8">> }

\* a request without a body, or with one that is no JSON object
NoBody == [json |-> FALSE, obj |-> <<>>]
NoPath == <<>>

\* Request bodies offered by clients: json says whether the text parses as a
\* JSON object, obj holds the keys present.
Bodies ==
    { [json |-> TRUE,  obj |-> [name |-> "Carol", email |-> CarolEmail]],
      [json |-> TRUE,  obj |-> [name |-> "Carol", email |-> BobEmail]],
      [json |-> TRUE,  obj |-> [name |-> "", email |-> CarolEmail]],
      [json |-> TRUE,  obj |-> [name |-> "Carol"]],
      [json |-> TRUE,  obj |-> [name |-> "Carol", email |-> BadEmail]],
      NoBody }

----------------------------------------------------------------------------
(* JSON values written by c.JSON *)

JObject(f) == [type |-> "object", obj |-> f, arr |-> <<>>]
JArray(s)  == [type |-> "array",  obj |-> <<>>, arr |-> s]
JNull      == [type |-> "null",   obj |-> <<>>, arr |-> <<>>]

\* gin.H{"message": msg}
ErrorBody_Message(msg) == JObject([message |-> msg])

\* gin.H{"error": msg}
ErrorBody(msg) == JObject([error |-> msg])

\* User with its json tags
UserJSON(u) == JObject([id |-> u.id, name |-> u.name, email |-> u.email])

----------------------------------------------------------------------------
(* parseIDParam: strconv.ParseInt(c.Param("id"), 10, 64) *)

Digits == {"0","1","2","3","4","5","6","7","8","9"}

DigitVal(c) ==
    CASE c = "0" -> 0 [] c = "1" -> 1 [] c = "2" -> 2 [] c = "3" -> 3
      [] c = "4" -> 4 [] c = "5" -> 5 [] c = "6" -> 6 [] c = "7" -> 7
      [] c = "8" -> 8 [] c = "9" -> 9

\* 2^63 - 1 and 2^63 as digit strings: the cutoffs of a 64-bit signed integer
MaxInt64Digits ==
    <<"9","2","2","3","3","7","2","0","3","6","8","5","4","7","7","5","8","0","7">>
MinInt64Digits ==
    <<"9","2","2","3","3","7","2","0","3","6","8","5","4","7","7","5","8","0","8">>

RECURSIVE StripZeros(_)
StripZeros(ds) ==
    IF Len(ds) > 1 /\ Head(ds) = "0" THEN StripZeros(Tail(ds)) ELSE ds

\* a <= b for digit strings of equal length
RECURSIVE DigitsLeq(_, _)
DigitsLeq(a, b) ==
    IF a = <<>> THEN TRUE
    ELSE IF DigitVal(Head(a)) < DigitVal(Head(b)) THEN TRUE
    ELSE IF DigitVal(Head(a)) > DigitVal(Head(b)) THEN FALSE
    ELSE DigitsLeq(Tail(a), Tail(b))

\* magnitude ds (no leading zeros) is at most the cutoff
InRange(ds, cutoff) ==
    \/ Len(ds) < Len(cutoff)
    \/ Len(ds) = Len(cutoff) /\ DigitsLeq(ds, cutoff)

RECURSIVE DigitsValue(_)
DigitsValue(ds) ==
    IF ds = <<>> THEN 0
    ELSE DigitsValue(SubSeq(ds, 1, Len(ds) - 1)) * 10 + DigitVal(ds[Len(ds)])

\* [ok, val]: ok is FALSE on a syntax error or a value out of the int64 range
ParseInt(s) ==
    LET neg  == s # <<>> /\ Head(s) = "-"
        sign == s # <<>> /\ Head(s) \in {"+", "-"}
        ds   == IF sign THEN Tail(s) ELSE s
    IN  IF ds = <<>> \/ \E i \in 1..Len(ds) : ds[i] \notin Digits
        THEN [ok |-> FALSE, val |-> 0]
        ELSE LET m == StripZeros(ds)
             IN  IF ~InRange(m, IF neg THEN MinInt64Digits ELSE MaxInt64Digits)
                 THEN [ok |-> FALSE, val |-> 0]
                 ELSE [ok |-> TRUE,
                       val |-> IF neg THEN 0 - DigitsValue(m) ELSE DigitsValue(m)]

parseIDParam(p) == ParseInt(p)

----------------------------------------------------------------------------
(* c.ShouldBindJSON(&payload) with binding:"required" / "required,email" *)

\* the `email` validator: one "@", a non-empty local part and domain
IsEmail(e) ==
    /\ Len(e) = 3
    /\ e[2] = "@"
    /\ e[1] \notin {"", "@"}
    /\ e[3] \notin {"", "@"}

\* decoded payload: a key that is absent leaves the zero value
PayloadOf(body) ==
    [Name  |-> IF "name"  \in DOMAIN body.obj THEN body.obj.name  ELSE "",
     Email |-> IF "email" \in DOMAIN body.obj THEN body.obj.email ELSE NoEmail]

\* payload struct whose Name has no binding tag
ShouldBindJSON_NameOptional(body) ==
    LET p == PayloadOf(body)
    IN  [ok |-> body.json /\ p.Email # NoEmail /\ IsEmail(p.Email), payload |-> p]

\* binding:"required" on Email, without the email tag
ShouldBindJSON_NoEmailTag(body) ==
    LET p == PayloadOf(body)
    IN  [ok |-> body.json /\ p.Name # "" /\ p.Email # NoEmail, payload |-> p]

\* [ok, payload]
ShouldBindJSON(body) ==
    LET p == PayloadOf(body)
    IN  [ok |-> /\ body.json
                /\ p.Name # ""
                /\ p.Email # NoEmail
                /\ IsEmail(p.Email),
         payload |-> p]

----------------------------------------------------------------------------
(* The relational store behind the pool *)

\* A handler goroutine in flight: pc is accepted (its request not yet read),
\* begun (CreateUser holds a transaction) or inserted (the INSERT of that
\* transaction has returned id); alive says whether the connection of the
\* transaction still reaches the store; Name, Email and reqBody are the bound
\* payload and the body it came from; gone says that c.Request.Context() is
\* done, which the server makes it when the client's connection closes.
Accepted == [pc |-> "accepted", alive |-> FALSE, id |-> 0, Name |-> "",
             Email |-> NoEmail, reqBody |-> NoBody, gone |-> FALSE]

InFlight == BagToSet(inflight)

Others(q) == BagToSet(inflight (-) SetToBag({q}))

\* Go error values, by what they report; ErrNil is nil
ErrNil         == ""
ErrUnreachable == "store unreachable"
ErrClosedPool  == "closed pool"
ErrNoRows      == "no rows in result set"
ErrNoUpdate    == "no rows updated"
ErrNoDelete    == "no rows deleted"
ErrUnique      == "unique_violation"
ErrTxLost      == "tx connection lost"
ErrParseInt    == "strconv.ParseInt"
ErrBinding     == "binding"
ErrDeadline    == "context deadline exceeded"
ErrParseConfig == "cannot parse connection string"
ErrCanceled    == "context canceled"

\* the error of a call that borrows a connection from the pool
PoolErr ==
    IF poolClosed THEN ErrClosedPool
    ELSE IF ~storeUp THEN ErrUnreachable
    ELSE ErrNil

\* the error of a call on the connection a transaction holds
TxErr(q) ==
    IF ~q.alive THEN ErrTxLost
    ELSE IF ~storeUp THEN ErrUnreachable
    ELSE ErrNil

\* c.Request.Context().Err() of the request the handler q serves
CtxErr(q) == IF q.gone THEN ErrCanceled ELSE ErrNil

\* what a call returns that did nothing: no value, the table as it is
Nothing == [users |-> <<>>, u |-> [id |-> 0, name |-> "", email |-> NoEmail],
            rows |-> users, id |-> 0, seq |-> users_id_seq]

\* a Repository call made with context.Background(): it runs to its end
WithContext_Background(q, res) == res

\* a Repository call made with c.Request.Context(): res is what the call
\* returns when it runs to its end; with the context done the call is
\* given up, returns the error of the context and leaves the table alone
WithContext(q, res) ==
    IF CtxErr(q) = ErrNil THEN res
    ELSE [f \in DOMAIN res |-> IF f = "err" THEN CtxErr(q) ELSE Nothing[f]]

RowsWithId(rows, id) == { u \in rows : u.id = id }

\* email TEXT UNIQUE: another committed row holds the email
EmailTaken(rows, email, exceptId) ==
    \E u \in rows : u.email = email /\ u.id # exceptId

\* a unique index that looks at committed rows only: no writer waits
EmailPending_NoWait(email, q) == FALSE

\* the unique index makes a writer wait while another open transaction holds
\* an uncommitted row with the same email
EmailPending(email, q) ==
    \E o \in Others(q) : o.pc = "inserted" /\ o.alive /\ o.Email = email

\* the rows without ORDER BY id: here, by descending id
RECURSIVE OrderById_Missing(_)
OrderById_Missing(rows) ==
    IF rows = {} THEN <<>>
    ELSE LET u == CHOOSE x \in rows : \A y \in rows : x.id >= y.id
         IN  <<u>> \o OrderById_Missing(rows \ {u})

\* ORDER BY id
RECURSIVE OrderById(_)
OrderById(rows) ==
    IF rows = {} THEN <<>>
    ELSE LET u == CHOOSE x \in rows : \A y \in rows : x.id <= y.id
         IN  <<u>> \o OrderById(rows \ {u})

----------------------------------------------------------------------------
(* Repository methods: each returns its error, its value and, for a write, *)
(* the rows of the table after the call.                                   *)

NoUser == [id |-> 0, name |-> "", email |-> NoEmail]

\* SELECT id, name, email FROM users ORDER BY id; users stays nil without rows
GetAllUsers ==
    IF PoolErr # ErrNil THEN [err |-> PoolErr, users |-> <<>>]
    ELSE [err |-> ErrNil, users |-> OrderById(users)]

\* GetUserByID that also sees the rows open transactions have inserted
GetUserByID_DirtyRead(id) ==
    LET open == { [id |-> o.id, name |-> o.Name, email |-> o.Email] :
                    o \in { x \in InFlight : x.pc = "inserted" /\ x.alive } }
        rows == users \cup open
    IN  IF PoolErr # ErrNil THEN [err |-> PoolErr, u |-> NoUser]
        ELSE IF RowsWithId(rows, id) = {} THEN [err |-> ErrNoRows, u |-> NoUser]
        ELSE [err |-> ErrNil, u |-> CHOOSE u \in rows : u.id = id]

\* GetUserByID whose query lost its WHERE clause: the first row of the table
GetUserByID_NoWhere(id) ==
    IF PoolErr # ErrNil THEN [err |-> PoolErr, u |-> NoUser]
    ELSE IF users = {} THEN [err |-> ErrNoRows, u |-> NoUser]
    ELSE [err |-> ErrNil, u |-> CHOOSE u \in users : \A v \in users : u.id <= v.id]

\* GetUserByID that ignores the error of Scan on no row
GetUserByID_IgnoresNoRows(id) ==
    IF PoolErr # ErrNil THEN [err |-> PoolErr, u |-> NoUser]
    ELSE IF RowsWithId(users, id) = {} THEN [err |-> ErrNil, u |-> NoUser]
    ELSE [err |-> ErrNil, u |-> CHOOSE u \in users : u.id = id]

\* SELECT id, name, email FROM users WHERE id=$1; Scan fails on no row
GetUserByID(id) ==
    IF PoolErr # ErrNil THEN [err |-> PoolErr, u |-> NoUser]
    ELSE IF RowsWithId(users, id) = {} THEN [err |-> ErrNoRows, u |-> NoUser]
    ELSE [err |-> ErrNil, u |-> CHOOSE u \in users : u.id = id]

\* UpdateUser whose statement sets the name only
UpdateUser_NameOnly(id, name, email) ==
    IF PoolErr # ErrNil THEN [err |-> PoolErr, rows |-> users]
    ELSE IF RowsWithId(users, id) = {} THEN [err |-> ErrNoUpdate, rows |-> users]
    ELSE [err |-> ErrNil,
          rows |-> { IF u.id = id THEN [u EXCEPT !.name = name] ELSE u :
                     u \in users }]

\* UpdateUser written as an upsert: a missing row is inserted
UpdateUser_Upsert(id, name, email) ==
    IF PoolErr # ErrNil THEN [err |-> PoolErr, rows |-> users]
    ELSE IF EmailTaken(users, email, id) THEN [err |-> ErrUnique, rows |-> users]
    ELSE [err |-> ErrNil,
          rows |-> { u \in users : u.id # id }
                   \cup { [id |-> id, name |-> name, email |-> email] }]

\* UPDATE users SET name=$1, email=$2 WHERE id=$3
UpdateUser(id, name, email) ==
    IF PoolErr # ErrNil THEN [err |-> PoolErr, rows |-> users]
    ELSE IF RowsWithId(users, id) = {} THEN [err |-> ErrNoUpdate, rows |-> users]
    ELSE IF EmailTaken(users, email, id) THEN [err |-> ErrUnique, rows |-> users]
    ELSE [err |-> ErrNil,
          rows |-> { IF u.id = id THEN [id |-> id, name |-> name, email |-> email]
                     ELSE u : u \in users }]

\* DeleteUser whose statement lost its WHERE clause
DeleteUser_NoWhere(id) ==
    IF PoolErr # ErrNil THEN [err |-> PoolErr, rows |-> users]
    ELSE IF users = {} THEN [err |-> ErrNoDelete, rows |-> users]
    ELSE [err |-> ErrNil, rows |-> {}]

\* DELETE FROM users WHERE id=$1
DeleteUser(id) ==
    IF PoolErr # ErrNil THEN [err |-> PoolErr, rows |-> users]
    ELSE IF RowsWithId(users, id) = {} THEN [err |-> ErrNoDelete, rows |-> users]
    ELSE [err |-> ErrNil, rows |-> { u \in users : u.id # id }]

\* CreateUser: r.db.Begin(ctx)
CreateUserBegin == [err |-> PoolErr]

\* the INSERT against a table whose email column is not UNIQUE
CreateUserInsert_NoUnique(q) ==
    IF TxErr(q) # ErrNil THEN [err |-> TxErr(q), id |-> 0, seq |-> users_id_seq]
    ELSE [err |-> ErrNil, id |-> users_id_seq, seq |-> users_id_seq + 1]

\* CreateUser: INSERT INTO users (name, email) VALUES ($1, $2) RETURNING id
\* inside tx; nextval is taken before the unique index is checked
CreateUserInsert(q) ==
    IF TxErr(q) # ErrNil THEN [err |-> TxErr(q), id |-> 0, seq |-> users_id_seq]
    ELSE IF EmailTaken(users, q.Email, 0)
         THEN [err |-> ErrUnique, id |-> 0, seq |-> users_id_seq + 1]
    ELSE [err |-> ErrNil, id |-> users_id_seq, seq |-> users_id_seq + 1]

\* CreateUser outside a transaction: a failure at the commit leaves the row
CreateUserCommit_NoTx(q) ==
    [err |-> TxErr(q),
     rows |-> users \cup { [id |-> q.id, name |-> q.Name, email |-> q.Email] }]

\* CreateUser whose deferred Rollback wins over Commit: no error, no row
CreateUserCommit_RolledBack(q) ==
    IF TxErr(q) # ErrNil THEN [err |-> TxErr(q), rows |-> users]
    ELSE [err |-> ErrNil, rows |-> users]

\* CreateUser: tx.Commit(ctx) makes the inserted row visible
CreateUserCommit(q) ==
    IF TxErr(q) # ErrNil THEN [err |-> TxErr(q), rows |-> users]
    ELSE [err |-> ErrNil,
          rows |-> users \cup { [id |-> q.id, name |-> q.Name, email |-> q.Email] }]

----------------------------------------------------------------------------
(* Responses *)

\* c.JSON(200, users): a nil slice is encoded as null
SliceJSON(s) ==
    IF s = <<>> THEN JNull ELSE JArray([i \in 1..Len(s) |-> UserJSON(s[i])])

\* What a finished handler leaves behind.  The request it served: method,
\* route, path parameter id and body reqBody.  What it did: the status and
\* body it wrote, the error it branched on, the number of Repository calls it
\* made and the number of responses it wrote.  What was the case when it
\* finished: hadRow, the table held a row with the identifier; emailHeld,
\* a committed row of another identifier held the email; wrote, the step
\* changed the table; drewId, the request advanced users_id_seq; prev, the
\* status and body of the response before it when that one answered the
\* same GET /users/:id; gone, the context of the request was done.
NoPrev == [status |-> 0, body |-> JNull]

NoResponse ==
    [method |-> "", route |-> "", id |-> NoPath, reqBody |-> NoBody,
     status |-> 0, body |-> JNull, err |-> ErrNil, calls |-> 0, writes |-> 0,
     hadRow |-> FALSE, emailHeld |-> FALSE, wrote |-> FALSE, drewId |-> FALSE,
     prev |-> NoPrev, gone |-> FALSE]

Request(method, route, p, b) ==
    [NoResponse EXCEPT !.method = method, !.route = route, !.id = p, !.reqBody = b]

\* c.JSON(status, body) after calls Repository calls, branching on err
Written(req, status, body, err, calls) ==
    [req EXCEPT !.status = status, !.body = body, !.err = err, !.calls = calls,
                !.writes = @ + 1]

Observed(resp, hadRow, emailHeld, wrote, drewId) ==
    [resp EXCEPT !.hadRow = hadRow, !.emailHeld = emailHeld, !.wrote = wrote,
                 !.drewId = drewId]

\* resp with the response before it, when that one answered the same GET
Repeating(resp) ==
    IF last.method = resp.method /\ last.route = resp.route /\ last.id = resp.id
    THEN [resp EXCEPT !.prev = [status |-> last.status, body |-> last.body]]
    ELSE resp

\* the handler q has written resp and returns
Respond(q, resp) ==
    /\ last' = [resp EXCEPT !.gone = q.gone]
    /\ inflight' = inflight (-) SetToBag({q})

\* the handler q moves on to position q2
Continue(q, q2) ==
    /\ inflight' = (inflight (-) SetToBag({q})) (+) SetToBag({q2})
    /\ UNCHANGED last

Running(q) == q \in InFlight /\ mainPc # "Stopped"

Handling(q) == Running(q) /\ q.pc = "accepted"

----------------------------------------------------------------------------
(* History variables.  They record what clients were told, and are read by *)
(* no handler.                                                             *)

NoExpect == [kind |-> "none", id |-> 0, name |-> "", email |-> NoEmail,
             before |-> <<>>]

history == <<created, expect>>

\* after a handler step that may have written row id
NoteWrite(id, wrote) ==
    IF wrote
    THEN /\ created' = { c \in created : c.id # id }
         /\ expect' = NoExpect
    ELSE UNCHANGED history

\* after a POST /users that answered 201 with id for (name, email)
NoteCreated(id, name, email) ==
    /\ created' = created \cup { [id |-> id, name |-> name, email |-> email] }
    /\ expect' = [kind |-> "created", id |-> id, name |-> name, email |-> email,
                  before |-> OrderById(users)]

\* after a DELETE /users/:id that removed a row
NoteDeleted(id) ==
    /\ created' = { c \in created : c.id # id }
    /\ expect' = [NoExpect EXCEPT !.kind = "deleted", !.id = id,
                                  !.before = OrderById(users)]

\* after a PUT /users/:id that UpdateUser reported as done
NoteUpdated(id) ==
    /\ created' = { c \in created : c.id # id }
    /\ expect' = [NoExpect EXCEPT !.kind = "updated", !.id = id,
                                  !.before = OrderById(users)]

\* after a PUT /users/:id with a valid body on an id without a row
NotePutMiss ==
    /\ created' = created
    /\ expect' = [NoExpect EXCEPT !.kind = "putmiss", !.before = OrderById(users)]

----------------------------------------------------------------------------
(* Handlers of registerRoutes: what each writes with c.JSON.               *)

HealthzResp ==
    Written(Request("GET", "/healthz", NoPath, NoBody), 200,
            JObject([status |-> "healthy"]), ErrNil, 0)

\* repo.db.Ping(ctx) under context.WithTimeout(1 s): slow says the store
\* takes longer than that to answer
Ping(slow) ==
    IF PoolErr # ErrNil THEN PoolErr
    ELSE IF slow THEN ErrDeadline
    ELSE ErrNil

ReadyzResp(slow) ==
    LET req == Request("GET", "/readyz", NoPath, NoBody)
        err == Ping(slow)
    IN  IF err # ErrNil
        THEN Written(req, 503, JObject([ready |-> FALSE]), err, 0)
        ELSE Written(req, 200, JObject([ready |-> TRUE]), ErrNil, 0)

\* GET /users; res is what GetAllUsers returned
ListUsersResp(res) ==
    LET req == Request("GET", "/users", NoPath, NoBody)
    IN  IF res.err # ErrNil
        THEN Written(req, 500, ErrorBody("failed to fetch users"), res.err, 1)
        ELSE Written(req, 200, SliceJSON(res.users), ErrNil, 1)

\* GET /users/:id; res is what GetUserByID returned
GetUserResp(p, res) ==
    LET req == Request("GET", "/users/:id", p, NoBody)
        id  == parseIDParam(p)
    IN  IF ~id.ok
        THEN Written(req, 400, ErrorBody("invalid user id"), ErrParseInt, 0)
        ELSE IF res.err # ErrNil
        THEN Written(req, 404, ErrorBody("user not found"), res.err, 1)
        ELSE Written(req, 200, UserJSON(res.u), ErrNil, 1)

\* POST /users when the handler returns before CreateUser has a transaction;
\* err is what r.db.Begin returned
PostUserEarlyResp(b, err) ==
    LET req  == Request("POST", "/users", NoPath, b)
        bind == ShouldBindJSON(b)
    IN  IF ~bind.ok
        THEN Written(req, 400, ErrorBody("invalid payload"), ErrBinding, 0)
        ELSE Written(req, 500, ErrorBody("failed to create user"), err, 1)

\* POST /users after CreateUser returned err or id
PostUserResp(b, err, id) ==
    LET req == Request("POST", "/users", NoPath, b)
    IN  IF err # ErrNil
        THEN Written(req, 500, ErrorBody("failed to create user"), err, 1)
        ELSE Written(req, 201, JObject([id |-> id]), ErrNil, 1)

\* PUT /users/:id; res is what UpdateUser returned
PutUserResp(p, b, res) ==
    LET req  == Request("PUT", "/users/:id", p, b)
    IN  IF ~parseIDParam(p).ok
        THEN Written(req, 400, ErrorBody("invalid user id"), ErrParseInt, 0)
        ELSE IF ~ShouldBindJSON(b).ok
        THEN Written(req, 400, ErrorBody("invalid payload"), ErrBinding, 0)
        ELSE IF res.err # ErrNil
        THEN Written(req, 404, ErrorBody("user not found"), res.err, 1)
        ELSE Written(req, 200, JObject([updated |-> TRUE]), ErrNil, 1)

\* DELETE /users/:id that tells zero rows from other errors
DelUserResp_Classifies(p, res) ==
    LET req == Request("DELETE", "/users/:id", p, NoBody)
    IN  IF ~parseIDParam(p).ok
        THEN Written(req, 400, ErrorBody("invalid user id"), ErrParseInt, 0)
        ELSE IF res.err = ErrNoDelete
        THEN Written(req, 404, ErrorBody("user not found"), res.err, 1)
        ELSE IF res.err # ErrNil
        THEN Written(req, 500, ErrorBody("failed to delete user"), res.err, 1)
        ELSE Written(req, 200, JObject([deleted |-> TRUE]), ErrNil, 1)

\* DELETE /users/:id; res is what DeleteUser returned
DelUserResp(p, res) ==
    LET req == Request("DELETE", "/users/:id", p, NoBody)
    IN  IF ~parseIDParam(p).ok
        THEN Written(req, 400, ErrorBody("invalid user id"), ErrParseInt, 0)
        ELSE IF res.err # ErrNil
        THEN Written(req, 404, ErrorBody("user not found"), res.err, 1)
        ELSE Written(req, 200, JObject([deleted |-> TRUE]), ErrNil, 1)

----------------------------------------------------------------------------
(* Handler steps.  A handler with one store call is one step; POST /users  *)
(* takes one step per call CreateUser makes on the store.                  *)

dbState   == <<users, users_id_seq>>
procState == <<storeUp, mainPc, poolClosed, startup, shutdownErr>>

\* a listener that srv.Shutdown leaves open while the handlers drain
Accept_WhileDraining ==
    /\ mainPc \in {"Serving", "Draining"}
    /\ BagCardinality(inflight) < MaxReqs
    /\ inflight' = inflight (+) SetToBag({Accepted})
    /\ UNCHANGED <<dbState, procState, last, history>>

\* the listener hands a request to a handler goroutine
Accept ==
    /\ mainPc = "Serving"
    /\ BagCardinality(inflight) < MaxReqs
    /\ inflight' = inflight (+) SetToBag({Accepted})
    /\ UNCHANGED <<dbState, procState, last, history>>

\* GET /healthz
Healthz(q) ==
    /\ Handling(q)
    /\ Respond(q, HealthzResp)
    /\ UNCHANGED <<dbState, procState, history>>

\* GET /readyz that ends the process when the probe fails, as main does
Readyz_Fatal(q, slow) ==
    /\ Handling(q)
    /\ Respond(q, ReadyzResp(slow))
    /\ mainPc' = IF Ping(slow) # ErrNil THEN "Fatal" ELSE mainPc
    /\ UNCHANGED <<dbState, storeUp, poolClosed, startup, shutdownErr, history>>

\* GET /readyz
Readyz(q, slow) ==
    /\ Handling(q)
    /\ Respond(q, ReadyzResp(slow))
    /\ UNCHANGED <<dbState, procState, history>>

\* GET /users
ListUsers(q) ==
    /\ Handling(q)
    /\ Respond(q, ListUsersResp(WithContext(q, GetAllUsers)))
    /\ UNCHANGED <<dbState, procState, history>>

\* GET /users/:id
GetUser(q, p) ==
    /\ Handling(q)
    /\ LET id  == parseIDParam(p)
           res == WithContext(q, GetUserByID(id.val))
       IN  Respond(q, Repeating(Observed(GetUserResp(p, res),
                                         id.ok /\ RowsWithId(users, id.val) # {},
                                         FALSE, FALSE, FALSE)))
    /\ UNCHANGED <<dbState, procState, history>>

\* transactions that have not drawn their identifier yet
Begun == { o \in InFlight : o.pc = "begun" }

\* POST /users up to r.db.Begin of CreateUser
PostUser(q, b) ==
    /\ Handling(q)
    /\ LET bind  == ShouldBindJSON(b)
           begin == WithContext(q, CreateUserBegin)
       IN  IF ~bind.ok \/ begin.err # ErrNil
           THEN Respond(q, Observed(PostUserEarlyResp(b, begin.err), FALSE,
                                    EmailTaken(users, PayloadOf(b).Email, 0),
                                    FALSE, FALSE))
           ELSE /\ users_id_seq + BagCardinality([o \in Begun |-> inflight[o]])
                     <= MaxId
                /\ Continue(q, [pc |-> "begun", alive |-> TRUE, id |-> 0,
                                Name |-> bind.payload.Name,
                                Email |-> bind.payload.Email, reqBody |-> b,
                                gone |-> q.gone])
    /\ UNCHANGED <<dbState, procState, history>>

\* CreateUser: the INSERT ... RETURNING id and Scan(&id); on an error the
\* deferred tx.Rollback runs and the handler answers
PostUserInsert(q) ==
    /\ Running(q)
    /\ q.pc = "begun"
    /\ ~(CtxErr(q) = ErrNil /\ TxErr(q) = ErrNil /\ EmailPending(q.Email, q))
    /\ LET res == WithContext(q, CreateUserInsert(q))
       IN  /\ users_id_seq' = res.seq
           /\ IF res.err # ErrNil
              THEN Respond(q, Observed(PostUserResp(q.reqBody, res.err, 0),
                                       FALSE, EmailTaken(users, q.Email, 0),
                                       FALSE, res.seq # users_id_seq))
              ELSE Continue(q, [q EXCEPT !.pc = "inserted", !.id = res.id])
    /\ UNCHANGED <<users, procState, history>>

\* CreateUser: tx.Commit, then the handler answers
PostUserCommit(q) ==
    /\ Running(q)
    /\ q.pc = "inserted"
    /\ LET res  == WithContext(q, CreateUserCommit(q))
           resp == PostUserResp(q.reqBody, res.err, q.id)
       IN  /\ users' = res.rows
           /\ Respond(q, Observed(resp, FALSE, EmailTaken(users, q.Email, 0),
                                  res.rows # users, TRUE))
           /\ IF resp.status = 201
              THEN NoteCreated(resp.body.obj.id, q.Name, q.Email)
              ELSE NoteWrite(q.id, res.rows # users)
    /\ UNCHANGED <<users_id_seq, procState>>

\* PUT /users/:id
PutUser(q, p, b) ==
    /\ Handling(q)
    /\ LET id   == parseIDParam(p)
           bind == ShouldBindJSON(b)
       IN  IF ~id.ok \/ ~bind.ok
           THEN /\ Respond(q, PutUserResp(p, b, [err |-> ErrNil, rows |-> users]))
                /\ UNCHANGED <<users, history>>
           ELSE /\ ~(CtxErr(q) = ErrNil /\ PoolErr = ErrNil
                       /\ RowsWithId(users, id.val) # {}
                       /\ EmailPending(bind.payload.Email, q))
                /\ LET res    == WithContext(q, UpdateUser(id.val,
                                     bind.payload.Name, bind.payload.Email))
                       hadRow == RowsWithId(users, id.val) # {}
                   IN  /\ users' = res.rows
                       /\ Respond(q, Observed(PutUserResp(p, b, res), hadRow,
                                     EmailTaken(users, bind.payload.Email, id.val),
                                     res.rows # users, FALSE))
                       /\ IF res.err = ErrNil THEN NoteUpdated(id.val)
                          ELSE IF hadRow THEN NoteWrite(id.val, res.rows # users)
                          ELSE NotePutMiss
    /\ UNCHANGED <<users_id_seq, procState>>

\* DELETE /users/:id
DelUser(q, p) ==
    /\ Handling(q)
    /\ LET id == parseIDParam(p)
       IN  IF ~id.ok
           THEN /\ Respond(q, DelUserResp(p, [err |-> ErrNil, rows |-> users]))
                /\ UNCHANGED <<users, history>>
           ELSE LET res == WithContext(q, DeleteUser(id.val))
                IN  /\ users' = res.rows
                    /\ Respond(q, Observed(DelUserResp(p, res),
                                           RowsWithId(users, id.val) # {},
                                           FALSE, res.rows # users, FALSE))
                    /\ IF res.rows # users THEN NoteDeleted(id.val)
                       ELSE UNCHANGED history
    /\ UNCHANGED <<users_id_seq, procState>>

\* the client of the request q closes its connection: the server cancels
\* c.Request.Context()
ClientGone(q) ==
    /\ Running(q)
    /\ ~q.gone
    /\ Continue(q, [q EXCEPT !.gone = TRUE])
    /\ UNCHANGED <<dbState, procState, history>>

----------------------------------------------------------------------------
(* The store as seen from outside the process *)

Disconnected(q) == [q EXCEPT !.alive = FALSE]

\* the store becomes unreachable: open transactions are lost with their
\* connections
StoreFails ==
    /\ storeUp
    /\ storeUp' = FALSE
    /\ inflight' = BagOfAll(Disconnected, inflight)
    /\ UNCHANGED <<dbState, mainPc, poolClosed, startup, shutdownErr, last,
                   history>>

StoreRecovers ==
    /\ ~storeUp
    /\ storeUp' = TRUE
    /\ UNCHANGED <<dbState, mainPc, poolClosed, startup, shutdownErr, inflight,
                   last, history>>

----------------------------------------------------------------------------
(* main *)

\* values of DATABASE_URL: unset, one pgxpool cannot parse, a good one
DatabaseURLs == {"", "not-a-url", "postgres://demo"}

\* pgxpool.New: fails on a connection string it cannot parse, dials nothing
NewPool(dbURL) == IF dbURL = "not-a-url" THEN ErrParseConfig ELSE ErrNil

\* no environment read, no pool made, no ping sent yet
NotStarted == [dbURL |-> "unread", newErr |-> "not called", pingErr |-> "not called",
               pings |-> 0]

\* srv.Shutdown has not returned
NotReturned == "not returned"

mainState == <<mainPc, poolClosed, startup, shutdownErr>>

\* main that goes on to listen without dbpool.Ping
MainStart_NoPing(dbURL) ==
    /\ mainPc = "Starting"
    /\ LET newErr == IF dbURL = "" THEN "not called" ELSE NewPool(dbURL)
       IN  /\ startup' = [dbURL |-> dbURL, newErr |-> newErr,
                          pingErr |-> "not called", pings |-> 0]
           /\ mainPc' = IF newErr = ErrNil THEN "Serving" ELSE "Fatal"
    /\ UNCHANGED <<dbState, storeUp, poolClosed, shutdownErr, inflight, last,
                   history>>

\* DATABASE_URL, pgxpool.New, dbpool.Ping, then the listener goroutine; each
\* log.Fatal ends the process
MainStart(dbURL) ==
    /\ mainPc = "Starting"
    /\ LET newErr  == IF dbURL = "" THEN "not called" ELSE NewPool(dbURL)
           pinged  == newErr = ErrNil
           pingErr == IF pinged THEN PoolErr ELSE "not called"
       IN  /\ startup' = [dbURL |-> dbURL, newErr |-> newErr, pingErr |-> pingErr,
                          pings |-> IF pinged THEN startup.pings + 1
                                    ELSE startup.pings]
           /\ mainPc' = IF pingErr = ErrNil THEN "Serving" ELSE "Fatal"
    /\ UNCHANGED <<dbState, storeUp, poolClosed, shutdownErr, inflight, last,
                   history>>

\* <-quit: SIGINT or SIGTERM arrives and srv.Shutdown closes the listener
MainSignal ==
    /\ mainPc = "Serving"
    /\ mainPc' = "Draining"
    /\ UNCHANGED <<dbState, storeUp, poolClosed, startup, shutdownErr, inflight,
                   last, history>>

\* srv.Shutdown(shutdownCtx) returns: nil once no request is in flight, the
\* error of the context when its 5 s are over first; the handlers still in
\* flight keep running
MainShutdownReturns ==
    /\ mainPc = "Draining"
    /\ mainPc' = "Closing"
    /\ shutdownErr' = IF inflight = EmptyBag THEN ErrNil ELSE ErrDeadline
    /\ UNCHANGED <<dbState, storeUp, poolClosed, startup, inflight, last,
                   history>>

\* a handler that holds a connection of the pool: CreateUser between Begin
\* and the end of its transaction
HoldsConn(q) == q.pc \in {"begun", "inserted"}

\* dbpool.Close() that runs while srv.Shutdown is still waiting
MainPoolClose_Early ==
    /\ mainPc \in {"Draining", "Closing"}
    /\ ~poolClosed
    /\ poolClosed' = TRUE
    /\ UNCHANGED <<dbState, storeUp, mainPc, startup, shutdownErr, inflight,
                   last, history>>

\* dbpool.Close(): from now on the pool rejects Acquire
MainPoolClose ==
    /\ mainPc = "Closing"
    /\ ~poolClosed
    /\ poolClosed' = TRUE
    /\ UNCHANGED <<dbState, storeUp, mainPc, startup, shutdownErr, inflight,
                   last, history>>

\* dbpool.Close() returns once every connection is back in the pool; main
\* returns and the process ends with the goroutines still running
MainExit ==
    /\ mainPc = "Closing"
    /\ poolClosed
    /\ \A q \in InFlight : ~HoldsConn(q)
    /\ mainPc' = "Stopped"
    /\ inflight' = EmptyBag
    /\ UNCHANGED <<dbState, storeUp, poolClosed, startup, shutdownErr, last,
                   history>>

Init ==
    /\ users = SeedUsers
    /\ users_id_seq = 3
    /\ storeUp = TRUE
    /\ mainPc = "Starting"
    /\ poolClosed = FALSE
    /\ startup = NotStarted
    /\ shutdownErr = NotReturned
    /\ inflight = EmptyBag
    /\ last = NoResponse
    /\ created = {}
    /\ expect = NoExpect

\* the requests the listener and the handlers serve
Serve ==
    \/ Accept
    \/ \E q \in InFlight : Healthz(q)
    \/ \E q \in InFlight, slow \in BOOLEAN : Readyz(q, slow)
    \/ \E q \in InFlight : ListUsers(q)
    \/ \E q \in InFlight, p \in PathIds : GetUser(q, p)
    \/ \E q \in InFlight, b \in Bodies : PostUser(q, b)
    \/ \E q \in InFlight : PostUserInsert(q)
    \/ \E q \in InFlight : PostUserCommit(q)
    \/ \E q \in InFlight, p \in PathIds, b \in Bodies : PutUser(q, p, b)
    \/ \E q \in InFlight, p \in PathIds : DelUser(q, p)

Next ==
    \/ \E dbURL \in DatabaseURLs : MainStart(dbURL)
    \/ StoreFails
    \/ StoreRecovers
    \/ Serve

\* the service with a store that may fail and recover at any moment
Spec == Init /\ [][Next]_vars

NextReachable ==
    \/ \E dbURL \in DatabaseURLs : MainStart(dbURL)
    \/ Serve

\* the service while the store stays reachable
SpecReachable == Init /\ [][NextReachable]_vars

\* path parameters that name the seeded rows
SeedPathIds == { <<"1">>, <<"2">> }

\* lists, lookups, updates and deletes of the seeded rows, while the store
\* stays reachable: the table can be emptied
NextEmptying ==
    \/ \E dbURL \in DatabaseURLs : MainStart(dbURL)
    \/ Accept
    \/ \E q \in InFlight : ListUsers(q)
    \/ \E q \in InFlight, p \in SeedPathIds : GetUser(q, p)
    \/ \E q \in InFlight, p \in SeedPathIds, b \in Bodies : PutUser(q, p, b)
    \/ \E q \in InFlight, p \in SeedPathIds : DelUser(q, p)

SpecEmptying == Init /\ [][NextEmptying]_vars

\* requests on the first seeded row and with one valid and one invalid body
FirstPathIds == { <<"1">> }
CarolBodies  == { [json |-> TRUE, obj |-> [name |-> "Carol", email |-> CarolEmail]],
                  NoBody }

\* the /users handlers and the probe with clients that may go away while
\* their request is served, on a store that answers
NextCancel ==
    \/ \E dbURL \in DatabaseURLs : MainStart(dbURL)
    \/ Accept
    \/ \E q \in InFlight : ClientGone(q)
    \/ \E q \in InFlight, slow \in BOOLEAN : Readyz(q, slow)
    \/ \E q \in InFlight : ListUsers(q)
    \/ \E q \in InFlight, p \in FirstPathIds : GetUser(q, p)
    \/ \E q \in InFlight, b \in CarolBodies : PostUser(q, b)
    \/ \E q \in InFlight : PostUserInsert(q)
    \/ \E q \in InFlight : PostUserCommit(q)
    \/ \E q \in InFlight, p \in FirstPathIds, b \in CarolBodies : PutUser(q, p, b)
    \/ \E q \in InFlight, p \in FirstPathIds : DelUser(q, p)

SpecCancel == Init /\ [][NextCancel]_vars

\* the requests in flight while main starts and shuts down: probes, lists
\* and creates
ServeMain ==
    \/ Accept
    \/ \E q \in InFlight : Healthz(q)
    \/ \E q \in InFlight, slow \in BOOLEAN : Readyz(q, slow)
    \/ \E q \in InFlight : ListUsers(q)
    \/ \E q \in InFlight, b \in Bodies : PostUser(q, b)
    \/ \E q \in InFlight : PostUserInsert(q)
    \/ \E q \in InFlight : PostUserCommit(q)

NextMain ==
    \/ \E dbURL \in DatabaseURLs : MainStart(dbURL)
    \/ MainSignal
    \/ MainShutdownReturns
    \/ MainPoolClose
    \/ MainExit
    \/ StoreFails
    \/ StoreRecovers
    \/ ServeMain

\* main from its start to its exit
SpecMain == Init /\ [][NextMain]_vars

\* main with the steps its own control flow guarantees: the context of
\* srv.Shutdown expires after 5 s, dbpool.Close() follows, and main returns
\* once Close does.  No handler step is fair: a store call returns when the
\* store answers, and no handler puts a deadline on its c.Request.Context().
SpecMainLive ==
    /\ SpecMain
    /\ WF_vars(MainShutdownReturns)
    /\ WF_vars(MainPoolClose)
    /\ WF_vars(MainExit)

----------------------------------------------------------------------------
(* The claims' reading of a request, independent of the handlers' parsing  *)
(* and binding.                                                            *)

\* the path parameters that are base-10 64-bit integers, and their values
IsInt64Text(p) == p \in { <<"1">>, <<"0", "3">> }
ValueOf(p) == IF p = <<"1">> THEN 1 ELSE 3

LacksName(b)  == "name" \notin DOMAIN b.obj \/ b.obj.name = ""
LacksEmail(b) == "email" \notin DOMAIN b.obj \/ b.obj.email = NoEmail
EmailShaped(e) == e \in {AliceEmail, BobEmail, CarolEmail}
ValidBody(b) ==
    b.json /\ ~LacksName(b) /\ ~LacksEmail(b) /\ EmailShaped(b.obj.email)

ById == last.route = "/users/:id"

----------------------------------------------------------------------------
(* Claims *)

\* C1: GET, PUT (with a valid body) and DELETE on /users/{id} with a numeric
\* identifier that matches no row answer 404, whatever the state of the store.
C1_MissingIdIs404 ==
    (/\ ById
     /\ IsInt64Text(last.id)
     /\ last.method = "PUT" => ValidBody(last.reqBody)
     /\ ~last.hadRow)
    => last.status = 404

\* C1 witness: a PUT with a valid body on an identifier without a row was
\* answered 404 after UPDATE matched no row.
C1_Witness ==
    /\ ById /\ last.method = "PUT"
    /\ IsInt64Text(last.id) /\ ValidBody(last.reqBody)
    /\ ~last.hadRow
    /\ last.err = ErrNoUpdate
    /\ last.status = 404

\* C2 (as claimed): a handler of /users or /users/{id} that branched on a
\* data-access failure other than zero rows matched (store unreachable, pool
\* closed, transaction lost, unique violation) answers 500.
C2_StoreFailureIs500 ==
    (/\ last.route \in {"/users", "/users/:id"}
     /\ last.err \in {ErrUnreachable, ErrClosedPool, ErrTxLost, ErrUnique})
    => last.status = 500

\* C3: a POST /users whose email a committed row holds when the handler
\* finishes is answered 500 when the body is valid (never 201), and the
\* table, with the row that holds the email, is as it was.
C3_DuplicateEmailFails ==
    (last.method = "POST" /\ last.emailHeld)
    => /\ last.status # 201
       /\ ValidBody(last.reqBody) => last.status = 500
       /\ ~last.wrote

\* C3 witness: a POST with the email of a seeded user failed on the unique
\* index and both seeded rows are as they were.
C3_Witness ==
    /\ last.method = "POST" /\ last.emailHeld
    /\ last.err = ErrUnique
    /\ last.status = 500
    /\ SeedUsers \subseteq users

\* C4: once POST /users has answered 201 with id for (name, email), a
\* GET /users/{id} served before any other write to that id answers 200 with
\* exactly that id, name and email (while the store stays reachable).
C4_RoundTrip ==
    \A c \in created :
        (/\ ById /\ last.method = "GET"
         /\ IsInt64Text(last.id)
         /\ ValueOf(last.id) = c.id)
        => /\ last.status = 200
           /\ last.body = UserJSON(c)

\* C4 witness: a GET by the identifier of a created, unwritten row returned
\* the submitted record.
C4_Witness ==
    \E c \in created :
        /\ ById /\ last.method = "GET"
        /\ IsInt64Text(last.id) /\ ValueOf(last.id) = c.id
        /\ last.status = 200
        /\ last.body = UserJSON(c)

IsList == last.method = "GET" /\ last.route = "/users"

\* C5: when the latest write is a POST /users answered 201 with id, GET /users
\* answers the list of before that POST plus one entry, the only one with
\* that id, carrying the submitted name and email (while the store stays
\* reachable).
C5_ListAfterCreate ==
    (IsList /\ expect.kind = "created")
    => /\ last.status = 200
       /\ last.body.type = "array"
       /\ LET items == last.body.arr
              entry == UserJSON([id |-> expect.id, name |-> expect.name,
                                 email |-> expect.email])
          IN  /\ Cardinality({ i \in 1..Len(items) : items[i].obj.id = expect.id }) = 1
              /\ \A i \in 1..Len(items) : items[i].obj.id = expect.id => items[i] = entry
              /\ Len(items) = Len(expect.before) + 1
              /\ { items[i] : i \in 1..Len(items) }
                   = { UserJSON(expect.before[i]) : i \in 1..Len(expect.before) }
                     \cup {entry}

\* C5 witness: GET /users answered right after a create and lists the new
\* identifier.
C5_Witness ==
    /\ IsList /\ expect.kind = "created"
    /\ last.status = 200
    /\ \E i \in 1..Len(last.body.arr) : last.body.arr[i].obj.id = expect.id

\* C6: PUT /users/{id} with a valid body on an identifier without a row
\* answers 404 and leaves the table as it was, and a GET /users that follows
\* with no write in between answers the list of before the PUT (while the
\* store stays reachable).
C6_PutMissChangesNothing ==
    /\ (/\ ById /\ last.method = "PUT"
        /\ IsInt64Text(last.id) /\ ValidBody(last.reqBody)
        /\ ~last.hadRow)
       => (last.status = 404 /\ ~last.wrote)
    /\ (IsList /\ expect.kind = "putmiss")
       => (last.status = 200 /\ last.body = SliceJSON(expect.before))

\* C6 witness: GET /users answered the unchanged list after a PUT on a
\* missing identifier.
C6_Witness ==
    /\ IsList /\ expect.kind = "putmiss"
    /\ last.status = 200
    /\ last.body = SliceJSON(expect.before)
    /\ Len(expect.before) = 2

\* C7: a list answered by GET /users is strictly ascending by id.
C7_ListAscending ==
    (IsList /\ last.status = 200)
    => \A i, j \in 1..Len(last.body.arr) :
          i < j => last.body.arr[i].obj.id < last.body.arr[j].obj.id

\* C7 witness: a list of two rows answered after a create (the sequence has
\* advanced), a delete (no row 3) and an update (row 1 renamed).
C7_Witness ==
    /\ IsList /\ last.status = 200
    /\ Len(last.body.arr) = 2
    /\ last.body.arr[1].obj.name = "Carol"
    /\ users_id_seq = 4
    /\ RowsWithId(users, 3) = {}

HasErrorField ==
    last.body.type = "object" /\ "error" \in DOMAIN last.body.obj

\* C8 (as claimed): every response with status 400, 404, 500 or 503 is a JSON
\* object with a top-level error field.
C8_ErrorFieldEverywhere ==
    last.status \in {400, 404, 500, 503} => HasErrorField

\* C8 (amended): every response with status 400, 404 or 500 is a JSON object
\* with a top-level error field; 503 is written by /readyz alone, as
\* {ready: false}.
C8_ErrorFieldOnUsers ==
    /\ last.status \in {400, 404, 500} => HasErrorField
    /\ last.status = 503 =>
          (last.route = "/readyz" /\ last.body = JObject([ready |-> FALSE]))

\* C8 witness: GET /users failed and answered 500 with an error field.
C8_Witness ==
    /\ IsList /\ last.status = 500
    /\ HasErrorField
    /\ last.err = ErrUnreachable

BadRequest ==
    \/ ById /\ ~IsInt64Text(last.id)
    \/ last.method \in {"POST", "PUT"} /\ ~ValidBody(last.reqBody)

\* C9: a request whose path identifier is no base-10 64-bit integer, or
\* whose body (POST, PUT) lacks a non-empty name, lacks an email or has an
\* email that is not email-shaped, is answered 400 with no Repository call
\* made, no row changed and no identifier drawn.
C9_BadRequestIs400 ==
    BadRequest
    => /\ last.status = 400
       /\ last.calls = 0
       /\ ~last.wrote
       /\ ~last.drewId

\* C9 witness: a PUT on a well-formed identifier with a body without email
\* was rejected before any Repository call.
C9_Witness ==
    /\ ById /\ last.method = "PUT"
    /\ IsInt64Text(last.id)
    /\ LacksEmail(last.reqBody)
    /\ last.status = 400
    /\ last.calls = 0

\* the HTTP table
TableStatuses(method, route) ==
    CASE route = "/healthz"   -> {200}
      [] route = "/readyz"    -> {200, 503}
      [] route = "/users" /\ method = "GET"  -> {200, 500}
      [] route = "/users" /\ method = "POST" -> {201, 400, 500}
      [] route = "/users/:id" -> {200, 400, 404}

\* C10: a finished handler has written exactly one response, with a status
\* the HTTP table lists for its endpoint.
C10_StatusTable ==
    last.route # ""
    => /\ last.writes = 1
       /\ last.status \in TableStatuses(last.method, last.route)

\* C10 witness: a DELETE whose store call failed for an unreachable store
\* was answered within the table, with 404.
C10_Witness ==
    /\ ById /\ last.method = "DELETE"
    /\ last.err = ErrUnreachable
    /\ last.writes = 1
    /\ last.status = 404

\* C11: CreateUser is atomic.  A POST /users that is not answered 201 has
\* changed no row, a POST that changed the table is answered 201, and while
\* a transaction of CreateUser is open (before its INSERT, or after it and
\* before its Commit) the table holds no row with the identifier it drew.
C11_CreateAtomic ==
    /\ (last.method = "POST" /\ last.status # 201) => ~last.wrote
    /\ (last.method = "POST" /\ last.wrote)
       => (last.status = 201 /\ last.err = ErrNil)
    /\ \A q \in InFlight :
          q.pc = "inserted" => RowsWithId(users, q.id) = {}

\* C11 witness: the Commit of a CreateUser that had drawn its identifier
\* failed, the POST was answered 500 and no row was written.
C11_Witness ==
    /\ last.method = "POST"
    /\ last.drewId
    /\ last.err = ErrTxLost
    /\ last.status = 500
    /\ ~last.wrote
    /\ users = SeedUsers

\* C12: the pool is closed only after srv.Shutdown has returned, which it
\* does with nil when no request is left in flight and with the deadline
\* error when its 5 s are over; the pool is never closed while main is
\* Starting, Serving or Draining.
C12_PoolClosedAfterShutdown ==
    /\ poolClosed => mainPc \in {"Closing", "Stopped"}
    /\ poolClosed => shutdownErr \in {ErrNil, ErrDeadline}
    /\ mainPc \in {"Starting", "Serving", "Draining", "Fatal"}
       => (~poolClosed /\ shutdownErr = NotReturned)
    /\ shutdownErr = ErrNil => inflight = EmptyBag

\* C12 witness: the pool was closed after the grace period ran out, with a
\* request still in flight.
C12_Witness ==
    /\ poolClosed
    /\ mainPc = "Closing"
    /\ shutdownErr = ErrDeadline
    /\ inflight # EmptyBag

\* C13 (as claimed): once the termination signal has arrived, main reaches
\* Stopped, whatever the requests in flight do.
C13_SignalLeadsToStopped == (mainPc = "Draining") ~> (mainPc = "Stopped")

StartupFailed ==
    \/ startup.dbURL = ""
    \/ startup.newErr = ErrParseConfig
    \/ startup.pingErr \in {ErrUnreachable, ErrClosedPool}

\* C14: a request is accepted, and main is past Starting other than by
\* log.Fatal, only when DATABASE_URL was present, the pool was created and
\* the startup ping succeeded; a missing DATABASE_URL, a pool-creation failure
\* or a failed ping leaves main in Fatal with no request ever served, and the
\* ping is sent at most once.
C14_StartupGate ==
    /\ (mainPc \notin {"Starting", "Fatal"} \/ inflight # EmptyBag
          \/ last # NoResponse)
       => /\ startup.dbURL \notin {"unread", ""}
          /\ startup.newErr = ErrNil
          /\ startup.pingErr = ErrNil
    /\ StartupFailed
       => (mainPc = "Fatal" /\ inflight = EmptyBag /\ last = NoResponse)
    /\ mainPc = "Starting" <=> startup = NotStarted
    /\ startup.pings <= 1

\* C14 witness: the startup ping failed, main ended in Fatal and stays there
\* although the store has come back.
C14_Witness ==
    /\ mainPc = "Fatal"
    /\ startup.pingErr = ErrUnreachable
    /\ startup.pings = 1
    /\ storeUp
    /\ inflight = EmptyBag

\* C15: a step in which GET /readyz answers writes 200 {ready: true} when
\* the probe returned no error and 503 {ready: false} when it failed or ran
\* into its 1 s deadline, writes one response, and changes nothing of main:
\* neither its lifecycle state nor the pool.
C15_ReadyzProbe ==
    [][ (last' # last /\ last'.route = "/readyz")
        => /\ mainState' = mainState
           /\ last'.writes = 1
           /\ last'.err \in {ErrNil, ErrUnreachable, ErrClosedPool, ErrDeadline}
           /\ last'.err = ErrNil
              => (last'.status = 200 /\ last'.body = JObject([ready |-> TRUE]))
           /\ last'.err # ErrNil
              => (last'.status = 503 /\ last'.body = JObject([ready |-> FALSE]))
      ]_vars

\* C15 witness: the probe ran into its deadline against a reachable store,
\* /readyz answered 503 and main is still Serving.
C15_Witness ==
    /\ last.route = "/readyz"
    /\ last.err = ErrDeadline
    /\ last.status = 503
    /\ storeUp
    /\ mainPc = "Serving"

\* C16 (as claimed): GET /users on an empty users table answers 200 with an
\* empty JSON array.
C16_EmptyTableListsEmptyArray ==
    (IsList /\ users = {})
    => (last.status = 200 /\ last.body = JArray(<<>>))

RowsBefore == { expect.before[i] : i \in 1..Len(expect.before) }

\* C18: a DELETE /users/{id} answered 200 has removed the one row with that
\* identifier and no other; while no write follows, a GET /users that answers
\* 200 lists the other rows and not that id, and a GET or a second DELETE of
\* that id answers 404.
C18_DeleteRemovesOneRow ==
    /\ (ById /\ last.method = "DELETE" /\ last.status = 200)
       => /\ IsInt64Text(last.id)
          /\ expect.kind = "deleted" /\ expect.id = ValueOf(last.id)
          /\ Cardinality(RowsWithId(RowsBefore, expect.id)) = 1
          /\ users = RowsBefore \ RowsWithId(RowsBefore, expect.id)
    /\ (IsList /\ last.status = 200 /\ expect.kind = "deleted")
       => /\ \A i \in 1..Len(last.body.arr) : last.body.arr[i].obj.id # expect.id
          /\ { last.body.arr[i] : i \in 1..Len(last.body.arr) }
               = { UserJSON(u) : u \in RowsBefore \ RowsWithId(RowsBefore, expect.id) }
    /\ (/\ ById /\ last.method \in {"GET", "DELETE"}
        /\ IsInt64Text(last.id)
        /\ expect.kind = "deleted" /\ expect.id = ValueOf(last.id)
        /\ ~last.wrote)
       => last.status = 404

\* C18 witness: a second DELETE of an identifier just deleted answered 404,
\* with the other seeded row still in the table.
C18_Witness ==
    /\ ById /\ last.method = "DELETE"
    /\ expect.kind = "deleted" /\ expect.id = 1
    /\ last.id = <<"1">>
    /\ ~last.wrote
    /\ last.err = ErrNoDelete
    /\ last.status = 404
    /\ \E u \in users : u.id = 2

\* C19: a PUT /users/{id} answered 200 has set the name and email of the one
\* row with that identifier to the submitted values; the other rows, the
\* identifiers in the table and the number of rows are as they were.
C19_PutSetsOneRow ==
    (ById /\ last.method = "PUT" /\ last.status = 200)
    => /\ IsInt64Text(last.id) /\ ValidBody(last.reqBody)
       /\ expect.kind = "updated" /\ expect.id = ValueOf(last.id)
       /\ LET id  == ValueOf(last.id)
              new == [id |-> id, name |-> last.reqBody.obj.name,
                      email |-> last.reqBody.obj.email]
          IN  /\ Cardinality(RowsWithId(RowsBefore, id)) = 1
              /\ users = (RowsBefore \ RowsWithId(RowsBefore, id)) \cup {new}
              /\ Cardinality(users) = Cardinality(RowsBefore)
              /\ { u.id : u \in users } = { u.id : u \in RowsBefore }

\* C19 witness: PUT /users/1 renamed the seeded row 1 and left row 2 and the
\* row count as they were.
C19_Witness ==
    /\ ById /\ last.method = "PUT" /\ last.status = 200
    /\ last.id = <<"1">>
    /\ RowsBefore = SeedUsers
    /\ users = { [id |-> 1, name |-> "Carol", email |-> CarolEmail],
                 [id |-> 2, name |-> "Bob", email |-> BobEmail] }

\* open transactions of CreateUser whose INSERT has passed
Inserted == { q \in InFlight : q.pc = "inserted" /\ q.alive }

\* C20: no two rows of users hold the same email, whatever the interleaving
\* of POST and PUT requests; of the creates in flight with one email at most
\* one gets past its INSERT, and none does while a committed row holds that
\* email, so that no two rows answered 201 stand with the same email.
C20_EmailsUnique ==
    /\ \A u, v \in users : u.email = v.email => u = v
    /\ \A u, v \in users : u.id = v.id => u = v
    /\ \A q \in Inserted :
          /\ inflight[q] = 1
          /\ \A o \in Inserted : o.Email = q.Email => o = q
          /\ ~EmailTaken(users, q.Email, 0)
    /\ \A c, d \in created : c.email = d.email => c = d
    /\ (last.method = "POST" /\ last.status = 201) => ~last.emailHeld

\* C20 witness: two creates with the same email are in flight together, one
\* past its INSERT with its identifier drawn, the other holding a transaction
\* and waiting on the unique index.
C20_Witness ==
    \E q \in Inserted, o \in InFlight :
        /\ o.pc = "begun" /\ o.alive
        /\ o.Email = q.Email
        /\ q.id = 3
        /\ ~EmailTaken(users, q.Email, 0)

\* C21: every row of users has a non-empty name and a non-empty email,
\* whatever POST and PUT requests have been served since the seeded table.
C21_RowsPopulated ==
    \A u \in users : u.name # "" /\ u.email # NoEmail

\* C21 witness: a row created by POST and then rewritten by PUT is in the
\* table with its name and email, after a POST without a name was refused.
C21_Witness ==
    /\ last.method = "POST" /\ LacksName(last.reqBody)
    /\ last.status = 400
    /\ expect.kind = "updated" /\ expect.id = 3
    /\ \E u \in users : u.id = 3 /\ u.name = "Carol" /\ u.email = CarolEmail

C24_StoreCallsBeforeClose ==
    last.calls > 0 => last.err # ErrClosedPool

\* C23: a /users handler whose request context is done when it makes a
\* Repository call gets the error of the context, answers with its error
\* status and leaves the table as it was: in particular a create given up
\* at Begin, at the INSERT or at Commit commits no row.  The probe of
\* /readyz does not hang on the request: it fails on its own deadline only,
\* and then answers 503.
C23_CallsBoundToContext ==
    /\ (last.gone /\ last.calls > 0) =>
          /\ last.err = ErrCanceled
          /\ ~last.wrote
          /\ last.status = IF last.route = "/users" THEN 500 ELSE 404
    /\ (last.route = "/readyz") =>
          /\ last.err \in {ErrNil, ErrDeadline}
          /\ (last.err = ErrDeadline) <=> (last.status = 503)

\* C23 witness: the client of a create went away after the INSERT had
\* returned its identifier; Commit was given up and the row is not there.
C23_Witness ==
    /\ last.method = "POST" /\ last.gone
    /\ last.drewId /\ users_id_seq = 4
    /\ last.err = ErrCanceled /\ last.status = 500
    /\ users = SeedUsers

=============================================================================
